---- MODULE Spec2Model ----
(***************************************************************************)
(* Model of the server-side data example: the Express handler of           *)
(* GET /api/employees (filter -> sort -> paginate over the in-memory       *)
(* dummyData array) and the React component EmployeeDataGrid that fetches  *)
(* it through useSWR.                                                      *)
(*                                                                         *)
(* JavaScript strings are sequences of UTF-16 code units, so that          *)
(* toLowerCase, includes, startsWith, String(), Number() and the           *)
(* relational operators are computed and not assumed.  A JavaScript value  *)
(* is a record [t, n, s]: its type tag, its number and its string.         *)
(***************************************************************************)
EXTENDS Integers, Sequences, FiniteSets, TLC

\* ------------------------------------------------------------------------
\* Bounds of the model
\* ------------------------------------------------------------------------
MaxPage == 2
MaxPageSize == 3
MaxItems == 2
MaxSorts == 2

\* ------------------------------------------------------------------------
\* String literals of the source, as code units
\* ------------------------------------------------------------------------
K_id == <<105, 100>>
K_name == <<110, 97, 109, 101>>
K_email == <<101, 109, 97, 105, 108>>
K_role == <<114, 111, 108, 101>>
K_department == <<100, 101, 112, 97, 114, 116, 109, 101, 110, 116>>
K_salary == <<115, 97, 108, 97, 114, 121>>
K_startDate == <<115, 116, 97, 114, 116, 68, 97, 116, 101>>
S_contains == <<99, 111, 110, 116, 97, 105, 110, 115>>
S_equals == <<101, 113, 117, 97, 108, 115>>
S_startsWith == <<115, 116, 97, 114, 116, 115, 87, 105, 116, 104>>
S_desc == <<100, 101, 115, 99>>
S_JohnDoe == <<74, 111, 104, 110, 32, 68, 111, 101>>
S_JaneSmith == <<74, 97, 110, 101, 32, 83, 109, 105, 116, 104>>
S_johnMail == <<106, 111, 104, 110, 64, 101, 120, 97, 109, 112, 108, 101, 46, 99, 111, 109>>
S_janeMail == <<106, 97, 110, 101, 64, 101, 120, 97, 109, 112, 108, 101, 46, 99, 111, 109>>
S_Developer == <<68, 101, 118, 101, 108, 111, 112, 101, 114>>
S_Designer == <<68, 101, 115, 105, 103, 110, 101, 114>>
S_Engineering == <<69, 110, 103, 105, 110, 101, 101, 114, 105, 110, 103>>
S_Design == <<68, 101, 115, 105, 103, 110>>
S_date1 == <<50, 48, 50, 51, 45, 48, 49, 45, 49, 53>>
S_date2 == <<50, 48, 50, 51, 45, 48, 50, 45, 50, 48>>

\* Strings the language itself produces: String(undefined), String(null),
\* String(NaN).
S_undefined == <<117, 110, 100, 101, 102, 105, 110, 101, 100>>
S_null == <<110, 117, 108, 108>>
S_NaN == <<78, 97, 78>>

\* Strings that only requests and the extra datasets carry.
S_asc == <<97, 115, 99>>
S_isAnyOf == <<105, 115, 65, 110, 121, 79, 102>>
S_abc == <<97, 98, 99>>
S_doejane == <<100, 111, 101, 32, 106, 97, 110, 101>>
S_doeMail == <<100, 111, 101, 64, 101, 120, 97, 109, 112, 108, 101, 46, 99, 111, 109>>
S_jdMail == <<106, 100, 64, 101, 120, 97, 109, 112, 108, 101, 46, 99, 111, 109>>
S_date3 == <<50, 48, 50, 51, 45, 48, 51, 45, 48, 49>>
S_jane == <<106, 97, 110, 101>>
S_doe == <<100, 111, 101>>
S_J == <<74>>

\* ------------------------------------------------------------------------
\* JavaScript values
\* ------------------------------------------------------------------------
Num(i) == [t |-> "number", n |-> i, s |-> <<>>]
Str(x) == [t |-> "string", n |-> 0, s |-> x]
Undefined == [t |-> "undefined", n |-> 0, s |-> <<>>]
Null == [t |-> "null", n |-> 0, s |-> <<>>]
NaN == [t |-> "NaN", n |-> 0, s |-> <<>>]

Min(a, b) == IF a < b THEN a ELSE b
Max(a, b) == IF a > b THEN a ELSE b

\* Number.prototype.toString of an integer: decimal digits, "-" first.
RECURSIVE Digits(_)
Digits(i) == IF i < 10 THEN <<48 + i>> ELSE Digits(i \div 10) \o <<48 + (i % 10)>>

NumberToString(i) == IF i < 0 THEN <<45>> \o Digits(0 - i) ELSE Digits(i)

\* String(value)
String(v) ==
    CASE v.t = "string" -> v.s
      [] v.t = "number" -> NumberToString(v.n)
      [] v.t = "NaN" -> S_NaN
      [] v.t = "null" -> S_null
      [] OTHER -> S_undefined

\* String.prototype.toLowerCase, on the code units A-Z.
toLowerCase(x) == [i \in 1..Len(x) |-> IF x[i] >= 65 /\ x[i] <= 90 THEN x[i] + 32 ELSE x[i]]

\* String.prototype.includes / startsWith
includes(x, y) == \E i \in 0..(Len(x) - Len(y)) : SubSeq(x, i + 1, i + Len(y)) = y

startsWith(x, y) == Len(y) <= Len(x) /\ SubSeq(x, 1, Len(y)) = y

\* Number(text) of a query-string value, for the texts the requests of the
\* model carry (decimal integers and words): the empty string is 0, an
\* optional sign followed by decimal digits is that integer, a word is NaN.
\* Fractions, exponents, hexadecimal and white space are not modelled.
IsDigits(x) == Len(x) > 0 /\ \A i \in 1..Len(x) : x[i] >= 48 /\ x[i] <= 57

RECURSIVE DigitsValue(_)
DigitsValue(x) ==
    IF Len(x) = 0 THEN 0
    ELSE 10 * DigitsValue(SubSeq(x, 1, Len(x) - 1)) + (x[Len(x)] - 48)

StringToNumber(x) ==
    IF Len(x) = 0 THEN Num(0)
    ELSE IF x[1] = 45 /\ IsDigits(Tail(x)) THEN Num(0 - DigitsValue(Tail(x)))
    ELSE IF x[1] = 43 /\ IsDigits(Tail(x)) THEN Num(DigitsValue(Tail(x)))
    ELSE IF IsDigits(x) THEN Num(DigitsValue(x))
    ELSE NaN

\* Number(value): a query-string value is a string; the destructuring
\* defaults are numbers already.
Number(v) ==
    CASE v.t = "string" -> StringToNumber(v.s)
      [] v.t = "number" -> v
      [] v.t = "null" -> Num(0)
      [] OTHER -> NaN

\* a * b and a + b on numbers: NaN is contagious.
Times(a, b) == IF a.t = "NaN" \/ b.t = "NaN" THEN NaN ELSE Num(a.n * b.n)

Plus(a, b) == IF a.t = "NaN" \/ b.t = "NaN" THEN NaN ELSE Num(a.n + b.n)

\* x < y on strings: code-unit lexicographic order.
RECURSIVE StringLess(_, _)
StringLess(x, y) ==
    IF Len(y) = 0 THEN FALSE
    ELSE IF Len(x) = 0 THEN TRUE
    ELSE IF x[1] < y[1] THEN TRUE
    ELSE IF x[1] > y[1] THEN FALSE
    ELSE StringLess(Tail(x), Tail(y))

\* a < b: two strings compare as strings, two numbers as numbers; undefined
\* converts to NaN and every comparison with NaN is false.  (The fields of
\* one column have one type, so a string never meets a number.)
Less(a, b) ==
    IF a.t = "string" /\ b.t = "string" THEN StringLess(a.s, b.s)
    ELSE IF a.t = "number" /\ b.t = "number" THEN a.n < b.n
    ELSE FALSE

\* ToIntegerOrInfinity of a slice argument: NaN is 0.
ToInteger(v) == IF v.t = "number" THEN v.n ELSE 0

\* A slice that takes the element at end as well.
sliceInclusiveEnd(arr, start, end) ==
    LET len == Len(arr)
        rs == ToInteger(start)
        re == ToInteger(end) + 1
        k == IF rs < 0 THEN Max(len + rs, 0) ELSE Min(rs, len)
        final == IF re < 0 THEN Max(len + re, 0) ELSE Min(re, len)
    IN  IF k < final THEN SubSeq(arr, k + 1, final) ELSE <<>>

\* Array.prototype.slice(start, end): a negative index counts from the end,
\* both are clamped into 0..length, an empty range gives [].
slice(arr, start, end) ==
    LET len == Len(arr)
        rs == ToInteger(start)
        re == ToInteger(end)
        k == IF rs < 0 THEN Max(len + rs, 0) ELSE Min(rs, len)
        final == IF re < 0 THEN Max(len + re, 0) ELSE Min(re, len)
    IN  IF k < final THEN SubSeq(arr, k + 1, final) ELSE <<>>

\* JSON.stringify of a number in the response body: NaN is written null.
JsonNumber(v) == IF v.t = "NaN" THEN Null ELSE v

\* ------------------------------------------------------------------------
\* The dataset
\* ------------------------------------------------------------------------
Employee(id, name, email, role, department, salary, startDate) ==
    [id |-> Num(id), name |-> Str(name), email |-> Str(email), role |-> Str(role),
     department |-> Str(department), salary |-> Num(salary), startDate |-> Str(startDate)]

\* The two records of the source.
SourceData ==
    << Employee(1, S_JohnDoe, S_johnMail, S_Developer, S_Engineering, 75000, S_date1),
       Employee(2, S_JaneSmith, S_janeMail, S_Designer, S_Design, 65000, S_date2) >>

\* "Add more dummy data as needed": records that tie on name, department
\* and salary, and a name that differs from another only in case and order.
MoreData ==
    << Employee(1, S_JohnDoe, S_johnMail, S_Developer, S_Engineering, 75000, S_date1),
       Employee(2, S_JaneSmith, S_janeMail, S_Designer, S_Design, 65000, S_date2),
       Employee(3, S_doejane, S_doeMail, S_Developer, S_Engineering, 65000, S_date3),
       Employee(4, S_JohnDoe, S_jdMail, S_Designer, S_Design, 75000, S_date3) >>

Datasets == {SourceData, MoreData}

\* item[key]: the key is converted to a string; a property the record does
\* not have is undefined.
Get(item, key) ==
    LET k == String(key)
    IN  CASE k = K_id -> item.id
          [] k = K_name -> item.name
          [] k = K_email -> item.email
          [] k = K_role -> item.role
          [] k = K_department -> item.department
          [] k = K_salary -> item.salary
          [] k = K_startDate -> item.startDate
          [] OTHER -> Undefined

\* ------------------------------------------------------------------------
\* Parsed JSON of the two structured query parameters
\* ------------------------------------------------------------------------
\* One entry of filters.items: an object with the keys it has (a missing key
\* reads undefined), or null.
FilterItem(columnField, operatorValue, field, operator, value) ==
    [k |-> "object", columnField |-> columnField, operatorValue |-> operatorValue,
     field |-> field, operator |-> operator, value |-> value]

NullItem ==
    [k |-> "null", columnField |-> Undefined, operatorValue |-> Undefined,
     field |-> Undefined, operator |-> Undefined, value |-> Undefined]

\* One entry of the sort model.
SortItem(field, sort) == [k |-> "object", field |-> field, sort |-> sort]

NullSort == [k |-> "null", field |-> Undefined, sort |-> Undefined]

PrimitiveSort == [k |-> "primitive", field |-> Undefined, sort |-> Undefined]

\* A query parameter that carries JSON: absent, or a string that JSON.parse
\* rejects, or a string that parses to json.
Absent == [present |-> FALSE, parses |-> FALSE, json |-> [k |-> "null", elems |-> <<>>]]

Unparsable == [present |-> TRUE, parses |-> FALSE, json |-> [k |-> "null", elems |-> <<>>]]

\* k is the kind of the parsed value.  For a filter model: "object" whose
\* items is an array (elems), "noitems" an object without items, "stritems"
\* / "numitems" an object whose items is a non-empty string / a number,
\* "array", "number", "null".  For a sort model: "array" (elems), "string"
\* (elems are its characters), "object", "number", "null".
Json(k, elems) == [present |-> TRUE, parses |-> TRUE, json |-> [k |-> k, elems |-> elems]]

\* ------------------------------------------------------------------------
\* The handler of GET /api/employees
\* ------------------------------------------------------------------------
DefaultPageSize == 40

\* const { page = 0, pageSize = 40, ... } = req.query
PageOf(q) == IF q.page.t = "undefined" THEN Num(0) ELSE q.page

PageSizeOf(q) == IF q.pageSize.t = "undefined" THEN Num(DefaultPageSize) ELSE q.pageSize

\* let filteredData = dummyData: the same array under a second name.
SpreadAliased(arr) == [alias |-> TRUE, elems |-> arr]

\* let filteredData = [...dummyData]: a fresh array, so what is done to
\* filteredData in place is not done to dummyData.
Spread(arr) == [alias |-> FALSE, elems |-> arr]

\* The callback of filters.items.every: "true", "false" or "throw" (a
\* TypeError: a property of null, or toLowerCase of a value that is no
\* string).
FilterCallback(item, filter) ==
    IF filter.k = "null" THEN "throw"
    ELSE LET value == Get(item, filter.columnField)
         IN  IF filter.operatorValue = Str(S_contains)
             THEN IF filter.value.t # "string" THEN "throw"
                  ELSE IF includes(toLowerCase(String(value)), toLowerCase(filter.value.s))
                       THEN "true" ELSE "false"
             ELSE IF filter.operatorValue = Str(S_equals)
             THEN IF filter.value.t = "string" /\ String(value) = filter.value.s
                  THEN "true" ELSE "false"
             ELSE IF filter.operatorValue = Str(S_startsWith)
             THEN IF filter.value.t # "string" THEN "throw"
                  ELSE IF startsWith(toLowerCase(String(value)), toLowerCase(filter.value.s))
                       THEN "true" ELSE "false"
             ELSE "true"

\* Array.prototype.every: in order, stops at the first false.
RECURSIVE every(_, _)
every(items, item) ==
    IF items = <<>> THEN "true"
    ELSE LET r == FilterCallback(item, Head(items))
         IN  IF r = "true" THEN every(Tail(items), item) ELSE r

\* Array.prototype.filter with that callback: the records kept, or threw.
RECURSIVE filter(_, _)
filter(data, items) ==
    IF data = <<>> THEN [threw |-> FALSE, out |-> <<>>]
    ELSE LET r == every(items, Head(data))
             rest == filter(Tail(data), items)
         IN  IF r = "throw" \/ rest.threw THEN [threw |-> TRUE, out |-> <<>>]
             ELSE IF r = "true" THEN [threw |-> FALSE, out |-> <<Head(data)>> \o rest.out]
             ELSE rest

\* The filter stage: filteredData after it.  The stage runs only when the
\* parameter is a string; JSON.parse may throw; filters.items of null throws;
\* a number, an array and an object without items have no items; items that
\* is a number has no length; items that is a string has no every, which
\* throws.  Whatever is thrown is caught and filteredData stays as it was.
FilterStage(fd, filterModel) ==
    IF ~filterModel.present \/ ~filterModel.parses THEN fd
    ELSE LET filters == filterModel.json
         IN  IF filters.k = "object" /\ Len(filters.elems) > 0
             THEN LET r == filter(fd.elems, filters.elems)
                  IN  IF r.threw THEN fd ELSE [alias |-> FALSE, elems |-> r.out]
             ELSE fd

\* A comparator that returns after its first key.
compareFirstKeyOnly(a, b, sorts) ==
    IF sorts = <<>> THEN 0
    ELSE LET sort == Head(sorts)
         IN  IF sort.k = "null" THEN 2
             ELSE LET aVal == Get(a, sort.field)
                      bVal == Get(b, sort.field)
                  IN  IF Less(aVal, bVal) THEN (IF sort.sort = Str(S_desc) THEN 1 ELSE -1)
                      ELSE IF Less(bVal, aVal) THEN (IF sort.sort = Str(S_desc) THEN -1 ELSE 1)
                      ELSE 0

\* The comparator of the sort: -1, 0, 1, or 2 when it throws (a property of
\* null).
RECURSIVE compare(_, _, _)
compare(a, b, sorts) ==
    IF sorts = <<>> THEN 0
    ELSE LET sort == Head(sorts)
         IN  IF sort.k = "null" THEN 2
             ELSE LET aVal == Get(a, sort.field)
                      bVal == Get(b, sort.field)
                  IN  IF Less(aVal, bVal) THEN (IF sort.sort = Str(S_desc) THEN 1 ELSE -1)
                      ELSE IF Less(bVal, aVal) THEN (IF sort.sort = Str(S_desc) THEN -1 ELSE 1)
                      ELSE compare(a, b, Tail(sorts))

\* Array.prototype.sort is stable: the record x goes behind the last record
\* that does not compare greater.  threw: the comparator threw.
RECURSIVE insert(_, _, _)
insert(acc, x, sorts) ==
    IF acc = <<>> THEN [threw |-> FALSE, out |-> <<x>>]
    ELSE LET last == acc[Len(acc)]
             c == compare(last, x, sorts)
         IN  IF c = 2 THEN [threw |-> TRUE, out |-> <<>>]
             ELSE IF c > 0
             THEN LET r == insert(SubSeq(acc, 1, Len(acc) - 1), x, sorts)
                  IN  IF r.threw THEN r ELSE [threw |-> FALSE, out |-> r.out \o <<last>>]
             ELSE [threw |-> FALSE, out |-> acc \o <<x>>]

RECURSIVE sort(_, _)
sort(arr, sorts) ==
    IF arr = <<>> THEN [threw |-> FALSE, out |-> <<>>]
    ELSE LET front == sort(SubSeq(arr, 1, Len(arr) - 1), sorts)
         IN  IF front.threw THEN front ELSE insert(front.out, arr[Len(arr)], sorts)

\* The sort stage: filteredData after it.  The stage runs only when the
\* parameter is a string; JSON.parse may throw; sorts.length of null throws;
\* a number and an object have no length; a string is iterated character by
\* character.  The sort is in place; a sort whose comparator throws leaves
\* the array as it was (the engine sorts a copy and writes it back at the
\* end), and what is thrown is caught.
SortStage(fd, sortModel) ==
    IF ~sortModel.present \/ ~sortModel.parses THEN fd
    ELSE LET sorts == sortModel.json
         IN  IF sorts.k \in {"array", "string"} /\ Len(sorts.elems) > 0
             THEN LET r == sort(fd.elems, sorts.elems)
                  IN  IF r.threw THEN fd ELSE [alias |-> fd.alias, elems |-> r.out]
             ELSE fd

\* The pagination stage with the page taken for the offset.
PaginateFromPage(arr, q) ==
    LET startIndex == Number(PageOf(q))
        endIndex == Plus(startIndex, Number(PageSizeOf(q)))
    IN  slice(arr, startIndex, endIndex)

\* The pagination stage: the slice the response carries.
Paginate(arr, q) ==
    LET startIndex == Times(Number(PageOf(q)), Number(PageSizeOf(q)))
        endIndex == Plus(startIndex, Number(PageSizeOf(q)))
    IN  slice(arr, startIndex, endIndex)

\* ------------------------------------------------------------------------
\* The requests of the model
\* ------------------------------------------------------------------------
\* Seq(S) up to a length.
RECURSIVE SeqsUpTo(_, _)
SeqsUpTo(S, n) ==
    IF n = 0 THEN {<<>>}
    ELSE LET shorter == SeqsUpTo(S, n - 1)
         IN  shorter \cup {Append(x, e) : x \in {y \in shorter : Len(y) = n - 1}, e \in S}

\* page and pageSize as the query string carries them: absent, an integer
\* in decimal, or a word.
PageValues ==
    {Undefined, Str(S_abc)}
        \cup {Str(NumberToString(i)) : i \in ((0 - MaxPage)..MaxPage) \cup {5}}

PageSizeValues ==
    {Undefined, Str(S_abc)}
        \cup {Str(NumberToString(i)) : i \in ((0 - MaxPageSize)..MaxPageSize) \cup {10}}

FilterItems ==
    { FilterItem(Str(K_name), Str(S_contains), Undefined, Undefined, Str(S_jane)),
      FilterItem(Undefined, Undefined, Str(K_name), Str(S_contains), Str(S_jane)),
      FilterItem(Str(K_salary), Str(S_equals), Undefined, Undefined, Str(NumberToString(65000))),
      FilterItem(Str(K_name), Str(S_startsWith), Undefined, Undefined, Str(S_J)),
      FilterItem(Str(K_name), Str(S_isAnyOf), Undefined, Undefined, Str(S_doe)),
      FilterItem(Str(K_id), Str(S_equals), Undefined, Undefined, Num(1)),
      FilterItem(Str(K_name), Str(S_contains), Undefined, Undefined, Num(5)),
      NullItem }

FilterModels ==
    {Absent, Unparsable}
        \cup {Json(k, <<>>) : k \in {"null", "number", "array", "noitems", "stritems", "numitems"}}
        \cup {Json("object", items) : items \in SeqsUpTo(FilterItems, MaxItems)}

SortItems ==
    { SortItem(Str(K_name), Str(S_asc)),
      SortItem(Str(K_name), Str(S_desc)),
      SortItem(Str(K_department), Str(S_asc)),
      SortItem(Str(K_salary), Str(S_desc)),
      NullSort,
      PrimitiveSort }

SortModels ==
    {Absent, Unparsable}
        \cup {Json(k, <<>>) : k \in {"null", "number", "object"}}
        \cup {Json("string", <<PrimitiveSort, PrimitiveSort, PrimitiveSort>>)}
        \cup {Json("array", sorts) : sorts \in SeqsUpTo(SortItems, MaxSorts)}

SomeFilterModels ==
    {Absent, Json("object", <<FilterItem(Str(K_name), Str(S_contains), Undefined, Undefined, Str(S_jane))>>)}

SomeSortModels == {Absent, Json("array", <<SortItem(Str(K_name), Str(S_desc))>>)}

SomeWindows ==
    { <<Undefined, Undefined>>,
      <<Str(NumberToString(0)), Str(NumberToString(10))>>,
      <<Str(NumberToString(1)), Str(NumberToString(1))>> }

Query(page, pageSize, sortModel, filterModel) ==
    [page |-> page, pageSize |-> pageSize, sortModel |-> sortModel, filterModel |-> filterModel]

\* The queries an HTTP client sends: every page window with some filters and
\* sorts, every filter model and every sort model with some windows.
Queries ==
    {Query(p, ps, sm, fm) :
        p \in PageValues, ps \in PageSizeValues, sm \in SomeSortModels, fm \in SomeFilterModels}
    \cup {Query(w[1], w[2], sm, fm) :
        w \in SomeWindows, sm \in SomeSortModels, fm \in FilterModels}
    \cup {Query(w[1], w[2], sm, fm) :
        w \in SomeWindows, sm \in SortModels, fm \in SomeFilterModels}

\* The component's fetch: the bare URL, no query string.
SwrQuery == Query(Undefined, Undefined, Absent, Absent)

\* ------------------------------------------------------------------------
\* State
\* ------------------------------------------------------------------------
VARIABLES
    dummyData,      \* the server's array
    request,        \* the request in flight: who sent it and its query
    response,       \* the response in flight to that request
    filtered,       \* the handler's filteredData when its filter stage ended
    filteredData,   \* the handler's filteredData when it answered
    swr,            \* what useSWR returns to the component
    fetchOutcome,   \* how the component's last fetch ended
    grid            \* the DataGrid's pagination, sort and filter models

vars == <<dummyData, request, response, filtered, filteredData, swr, fetchOutcome, grid>>

NoRequest == [from |-> "none", query |-> SwrQuery]

NoBody ==
    [status |-> 0, json |-> FALSE, hasData |-> FALSE, data |-> <<>>,
     total |-> 0, page |-> Null, pageSize |-> Null]

\* res.json({ data, total, page, pageSize })
OkBody(data, total, page, pageSize) ==
    [status |-> 200, json |-> TRUE, hasData |-> TRUE, data |-> data,
     total |-> total, page |-> JsonNumber(page), pageSize |-> JsonNumber(pageSize)]

\* A response that is not OK, from the server's host or from anything
\* between it and the client: its body is no JSON, or a JSON object without
\* a data property, or a JSON object with one.
ErrorBody(json, hasData, data) ==
    [status |-> 500, json |-> json, hasData |-> hasData, data |-> data,
     total |-> 0, page |-> Null, pageSize |-> Null]

\* The models of the DataGrid: its pagination model (page sizes of
\* pageSizeOptions; the grid starts on page 0 with 100 rows a page), its sort
\* model and the items of its filter model.  The grid spells a sort
\* {field, sort} and a filter item {field, operator, value}.
GridModel(page, pageSize, sortModel, items) ==
    [paginationModel |-> [page |-> page, pageSize |-> pageSize],
     sortModel |-> sortModel, filterModel |-> [items |-> items]]

InitialGrid == GridModel(0, 100, <<>>, <<>>)

GridModels ==
    {GridModel(w[1], w[2], sm, items) :
        w \in {<<0, 100>>, <<0, 5>>, <<1, 5>>},
        sm \in {<<>>, <<SortItem(Str(K_name), Str(S_desc))>>},
        items \in {<<>>, <<FilterItem(Undefined, Undefined, Str(K_name), Str(S_contains), Str(S_jane))>>}}

Init ==
    /\ dummyData \in Datasets
    /\ request = [from |-> "swr", query |-> SwrQuery]
    /\ response = NoBody
    /\ filtered = <<>>
    /\ filteredData = <<>>
    /\ swr = [isLoading |-> TRUE, error |-> FALSE, hasData |-> FALSE, data |-> NoBody]
    /\ fetchOutcome = "none"
    /\ grid = InitialGrid

\* ------------------------------------------------------------------------
\* Server
\* ------------------------------------------------------------------------
\* app.get('/api/employees', ...): the handler's locals when it answers, the
\* body it sends and the array dummyData as it leaves it.
Handler(data, q) ==
    LET afterFilter == FilterStage(Spread(data), q.filterModel)
        afterSort == SortStage(afterFilter, q.sortModel)
    IN  [filtered |-> afterFilter.elems,
         filteredData |-> afterSort.elems,
         body |-> OkBody(Paginate(afterSort.elems, q), Len(afterSort.elems),
                         Number(PageOf(q)), Number(PageSizeOf(q))),
         dummyData |-> IF afterSort.alias THEN afterSort.elems ELSE data]

HandleGetEmployees ==
    /\ request.from # "none"
    /\ response.status = 0
    /\ LET h == Handler(dummyData, request.query)
       IN  /\ filtered' = h.filtered
           /\ filteredData' = h.filteredData
           /\ response' = h.body
           /\ dummyData' = h.dummyData
    /\ UNCHANGED <<request, swr, fetchOutcome, grid>>

\* ------------------------------------------------------------------------
\* Network
\* ------------------------------------------------------------------------
\* Any HTTP client sends GET /api/employees with a query string.
SendRequest ==
    /\ request.from = "none"
    /\ \E q \in Queries : request' = [from |-> "http", query |-> q]
    /\ UNCHANGED <<dummyData, response, filtered, filteredData, swr, fetchOutcome, grid>>

\* That client takes its response.
ReceiveResponse ==
    /\ request.from = "http"
    /\ response.status # 0
    /\ request' = NoRequest
    /\ response' = NoBody
    /\ filtered' = <<>>
    /\ filteredData' = <<>>
    /\ UNCHANGED <<dummyData, swr, fetchOutcome, grid>>

\* The component's request is answered with a status that is not OK.
ErrorResponse ==
    /\ request.from = "swr"
    /\ response.status = 0
    /\ \E json \in BOOLEAN, hasData \in BOOLEAN :
          /\ hasData => json
          /\ response' = ErrorBody(json, hasData, IF hasData THEN dummyData ELSE <<>>)
    /\ UNCHANGED <<dummyData, request, filtered, filteredData, swr, fetchOutcome, grid>>

\* ------------------------------------------------------------------------
\* Client: the component EmployeeDataGrid
\* ------------------------------------------------------------------------
\* fetcher = (url) => fetch(url).then(res => res.json()): the promise
\* rejects when the body is no JSON and resolves to the parsed body
\* otherwise, whatever the status.
fetcher(res) == [rejected |-> ~res.json, value |-> res]

\* useSWR starts a request (on mount in Init; later on focus, on reconnect
\* or as the retry after an error).  isLoading: a request is under way and
\* no data was loaded yet.
SwrFetch ==
    /\ request.from = "none"
    /\ request' = [from |-> "swr", query |-> SwrQuery]
    /\ swr' = [swr EXCEPT !.isLoading = ~swr.hasData]
    /\ UNCHANGED <<dummyData, response, filtered, filteredData, fetchOutcome, grid>>

\* The component's request got a response: useSWR sets data, or error when
\* the fetcher rejected (the data loaded before stays).
SwrReceive ==
    /\ request.from = "swr"
    /\ response.status # 0
    /\ LET r == fetcher(response)
       IN  swr' = IF r.rejected
                  THEN [swr EXCEPT !.isLoading = FALSE, !.error = TRUE]
                  ELSE [isLoading |-> FALSE, error |-> FALSE, hasData |-> TRUE, data |-> r.value]
    /\ fetchOutcome' = IF response.status = 200 THEN "ok" ELSE "status"
    /\ request' = NoRequest
    /\ response' = NoBody
    /\ filtered' = <<>>
    /\ filteredData' = <<>>
    /\ UNCHANGED <<dummyData, grid>>

\* The request never gets a response (server down, connection lost): fetch
\* rejects.
NetworkFailure ==
    /\ request.from # "none"
    /\ response.status = 0
    /\ IF request.from = "swr"
       THEN /\ swr' = [swr EXCEPT !.isLoading = FALSE, !.error = TRUE]
            /\ fetchOutcome' = "network"
       ELSE UNCHANGED <<swr, fetchOutcome>>
    /\ request' = NoRequest
    /\ UNCHANGED <<dummyData, response, filtered, filteredData, grid>>

\* The user turns the page, sorts or filters in the grid the component
\* shows.  The DataGrid has the props rows, columns, pagination and
\* pageSizeOptions: it pages, sorts and filters the rows it was given, and
\* the component does nothing on the change.
GridChange ==
    /\ request.from = "none"
    /\ ~swr.isLoading /\ ~swr.error
    /\ \E g \in GridModels \ {grid} : grid' = g
    /\ UNCHANGED <<dummyData, request, response, filtered, filteredData, swr, fetchOutcome>>

\* What the component renders: the spinner, the error Alert, or the grid.
View == IF swr.isLoading THEN "spinner" ELSE IF swr.error THEN "alert" ELSE "grid"

\* rows={data?.data || []}
Rows == IF swr.hasData /\ swr.data.hasData THEN swr.data.data ELSE <<>>

\* No rowCount prop: the grid counts the rows it was given.
RowCount == Len(Rows)

\* ------------------------------------------------------------------------
\* Specification
\* ------------------------------------------------------------------------
Next ==
    \/ HandleGetEmployees
    \/ SendRequest
    \/ ReceiveResponse
    \/ ErrorResponse
    \/ SwrFetch
    \/ SwrReceive
    \/ NetworkFailure

Spec == Init /\ [][Next]_vars

\* The component alone with its user: the browser is the server's only
\* client.
GridNext ==
    \/ HandleGetEmployees
    \/ ErrorResponse
    \/ SwrFetch
    \/ SwrReceive
    \/ NetworkFailure
    \/ GridChange

GridSpec == Init /\ [][GridNext]_vars

\* ------------------------------------------------------------------------
\* What the claims speak of
\* ------------------------------------------------------------------------
\* The handler has answered the request in flight.
Answered == request.from # "none" /\ response.status = 200

\* The page and the page size of the request in flight, as numbers.
PageNumber == Number(PageOf(request.query))

PageSizeNumber == Number(PageSizeOf(request.query))

ValidWindow ==
    /\ PageNumber.t = "number" /\ PageNumber.n >= 0
    /\ PageSizeNumber.t = "number" /\ PageSizeNumber.n >= 1

\* A condition of a filter model, as the interface describes it: the field
\* is under columnField or field, the operator under operatorValue or
\* operator.
ConditionField(item) == IF item.columnField.t # "undefined" THEN item.columnField ELSE item.field

ConditionOperator(item) ==
    IF item.operatorValue.t # "undefined" THEN item.operatorValue ELSE item.operator

WellFormedItem(item) ==
    /\ item.k = "object"
    /\ ConditionField(item).t = "string"
    /\ ConditionOperator(item).t = "string"
    /\ item.value.t = "string"

\* The filter model is {items: [...]} with well-formed items.
WellFormedFilter(fm) ==
    /\ fm.present /\ fm.parses /\ fm.json.k = "object"
    /\ \A i \in DOMAIN fm.json.elems : WellFormedItem(fm.json.elems[i])

MalformedFilter(fm) == fm.present /\ ~WellFormedFilter(fm)

\* The conditions of a request: those of a well-formed filter model, none
\* without a filter model or with a malformed one.
Conditions(fm) == IF WellFormedFilter(fm) THEN fm.json.elems ELSE <<>>

\* One condition on one record: contains and startsWith without regard to
\* case, equals on the exact string, any other operator true.
ConditionHolds(rec, item) ==
    LET v == String(Get(rec, ConditionField(item)))
        op == ConditionOperator(item).s
        x == item.value.s
    IN  IF op = S_contains THEN includes(toLowerCase(v), toLowerCase(x))
        ELSE IF op = S_equals THEN v = x
        ELSE IF op = S_startsWith THEN startsWith(toLowerCase(v), toLowerCase(x))
        ELSE TRUE

Satisfies(rec, fm) == \A i \in DOMAIN Conditions(fm) : ConditionHolds(rec, Conditions(fm)[i])

\* The window [page*pageSize, page*pageSize+pageSize) of a sequence.
Window(arr, page, pageSize) ==
    [i \in 1..Min(pageSize, Max(0, Len(arr) - page * pageSize)) |-> arr[page * pageSize + i]]

\* ------------------------------------------------------------------------
\* Claims
\* ------------------------------------------------------------------------
\* C1: the total of every response is the number of records of the dataset
\* that satisfy all conditions of the request's filterModel, whatever the
\* page, the page size and the sort model.
C1_TotalCountsMatches ==
    Answered =>
        response.total =
            Cardinality({i \in DOMAIN dummyData : Satisfies(dummyData[i], request.query.filterModel)})

\* C2: with page >= 0 and pageSize >= 1 the data of the response is the
\* window [page*pageSize, page*pageSize+pageSize) of the filtered and sorted
\* sequence, of length min(pageSize, max(0, total - page*pageSize)), and it
\* is empty when the offset is at or past the end.
C2_PageIsWindow ==
    (Answered /\ ValidWindow) =>
        LET start == PageNumber.n * PageSizeNumber.n
        IN  /\ response.total = Len(filteredData)
            /\ Len(response.data) = Min(PageSizeNumber.n, Max(0, response.total - start))
            /\ \A i \in 1..Len(response.data) : response.data[i] = filteredData[start + i]
            /\ (start >= Len(filteredData) => response.data = <<>>)

\* C2's case: page=5, pageSize=10 on the two records gives [] and total 2.
C2_Witness ==
    /\ Answered
    /\ dummyData = SourceData
    /\ request.query.page = Str(NumberToString(5))
    /\ request.query.pageSize = Str(NumberToString(10))
    /\ response.data = <<>>
    /\ response.total = 2

\* The request of C3's scenario: the filter item as JSON under one spelling
\* or the other, no sort, page=0, pageSize=10.
ScenarioQuery(item) ==
    Query(Str(NumberToString(0)), Str(NumberToString(10)), Absent, Json("object", <<item>>))

\* C3: on the two records, the filter item name contains "jane", spelled
\* columnField/operatorValue or field/operator, with no sort, page=0 and
\* pageSize=10 returns only the record with id 2 and total=1.
C3_BothSpellingsFilter ==
    (/\ Answered
     /\ dummyData = SourceData
     /\ request.query \in
           { ScenarioQuery(FilterItem(Str(K_name), Str(S_contains), Undefined, Undefined, Str(S_jane))),
             ScenarioQuery(FilterItem(Undefined, Undefined, Str(K_name), Str(S_contains), Str(S_jane))) })
        => /\ response.data = <<SourceData[2]>>
           /\ response.total = 1

\* The windows C4 allows for a page or page size that is out of range or no
\* number: the value clamped into range, or the default.
AcceptablePages == {0} \cup (IF PageNumber.t = "number" THEN {Max(PageNumber.n, 0)} ELSE {})

AcceptablePageSizes ==
    {DefaultPageSize} \cup (IF PageSizeNumber.t = "number" THEN {Max(PageSizeNumber.n, 1)} ELSE {})

\* C4: when page is below 0 or pageSize below 1, or one of them is no number,
\* the handler answers with the window of the filtered and sorted sequence
\* for the clamped or default page and page size.
C4_OutOfRangeWindowClamped ==
    (Answered /\ ~ValidWindow) =>
        \E p \in AcceptablePages, ps \in AcceptablePageSizes :
            response.data = Window(filteredData, p, ps)

\* C5: a request with a malformed filterModel (unparsable, not an object
\* with an items array, items with fields of the wrong type) gets the
\* response of the same request without filter.
C5_MalformedFilterIsNoFilter ==
    (Answered /\ MalformedFilter(request.query.filterModel)) =>
        response = Handler(dummyData, [request.query EXCEPT !.filterModel = Absent]).body

\* A sort model that is not an array of {field, sort} objects.
MalformedSort(sm) ==
    /\ sm.present
    /\ ~(/\ sm.parses /\ sm.json.k = "array"
         /\ \A i \in DOMAIN sm.json.elems :
               /\ sm.json.elems[i].k = "object"
               /\ sm.json.elems[i].field.t = "string"
               /\ sm.json.elems[i].sort.t = "string")

\* C6: a request with a malformed sortModel (unparsable, not an array, an
\* entry that is no {field, sort} object, also behind well-formed entries) is
\* answered with the sort stage skipped as a whole: the page comes from the
\* filtered sequence in dataset order.
C6_MalformedSortIsNoSort ==
    (Answered /\ MalformedSort(request.query.sortModel)) =>
        /\ filteredData = filtered
        /\ response = Handler(dummyData, [request.query EXCEPT !.sortModel = Absent]).body

\* C7: no step changes the dataset, and every answer is the handler's answer
\* to its request on a dataset of the start, whatever was answered before.
C7_DatasetNeverMutated ==
    [][/\ dummyData' = dummyData
       /\ response'.status = 200 =>
              \E d \in Datasets : response' = Handler(d, request'.query).body]_vars

\* C7's case: the handler has sorted its copy into another order and the
\* dataset is still one of the start.
C7_Witness ==
    /\ Answered
    /\ filteredData # filtered
    /\ Len(filteredData) = Len(dummyData)
    /\ dummyData \in Datasets

\* C8: with a filter model that is absent or well-formed, the filter stage
\* keeps exactly the records for which every condition holds, in dataset
\* order.
C8_FilterKeepsMatches ==
    (Answered /\ ~MalformedFilter(request.query.filterModel)) =>
        filtered = SelectSeq(dummyData, LAMBDA rec : Satisfies(rec, request.query.filterModel))

\* The position of a record in the dataset.
Position(rec) == CHOOSE i \in DOMAIN dummyData : dummyData[i] = rec

\* The keys of a sort model (none when it is absent), and the first of them
\* on which two records differ (0: none).
SortKeys(sm) == IF sm.present THEN sm.json.elems ELSE <<>>

Differ(a, b, key) == Get(a, key.field) # Get(b, key.field)

FirstDifference(a, b, keys) ==
    IF \E i \in DOMAIN keys : Differ(a, b, keys[i])
    THEN CHOOSE i \in DOMAIN keys :
            /\ Differ(a, b, keys[i])
            /\ \A j \in 1..(i - 1) : ~Differ(a, b, keys[j])
    ELSE 0

\* a comes before b: by the first key on which they differ, ascending or,
\* for desc, descending; by their dataset order when they differ on none.
InOrder(a, b, keys) ==
    LET i == FirstDifference(a, b, keys)
    IN  IF i = 0 THEN Position(a) < Position(b)
        ELSE IF keys[i].sort = Str(S_desc)
             THEN Less(Get(b, keys[i].field), Get(a, keys[i].field))
             ELSE Less(Get(a, keys[i].field), Get(b, keys[i].field))

\* C9: with a sort model that is absent or well-formed, the sort stage
\* rearranges the filtered sequence so that any two records stand in the
\* order of the first key on which they differ, and records equal on every
\* key (all records when there is no key) keep their dataset order.
C9_StableMultiKeySort ==
    (Answered /\ ~MalformedSort(request.query.sortModel)) =>
        /\ Len(filteredData) = Len(filtered)
        /\ \A i \in DOMAIN filtered : \E j \in DOMAIN filteredData : filteredData[j] = filtered[i]
        /\ \A i, j \in DOMAIN filteredData :
              i < j => InOrder(filteredData[i], filteredData[j], SortKeys(request.query.sortModel))

\* C9's case: two keys, and the second decided between records that tie on
\* the first: the two John Does, Design before Engineering.
C9_Witness ==
    /\ Answered
    /\ dummyData = MoreData
    /\ request.query.sortModel =
          Json("array", <<SortItem(Str(K_name), Str(S_asc)), SortItem(Str(K_department), Str(S_asc))>>)
    /\ ~request.query.filterModel.present
    /\ filteredData = <<MoreData[2], MoreData[4], MoreData[1], MoreData[3]>>

\* C10: when the component's request has failed, by the network or by a
\* status that is not OK, and no new request is under way, the component
\* shows the error Alert.
C10_FailedFetchShowsAlert ==
    (fetchOutcome \in {"network", "status"} /\ request.from # "swr") => View = "alert"

\* The HTTP query the grid's models translate to: page and pageSize as
\* decimal strings, sortModel and filterModel as JSON strings.
GridQuery(g) ==
    Query(Str(NumberToString(g.paginationModel.page)),
          Str(NumberToString(g.paginationModel.pageSize)),
          Json("array", g.sortModel),
          Json("object", g.filterModel.items))

\* C11: whenever the grid asks for rows with new models the component sends
\* GET /api/employees with page, pageSize, sortModel and filterModel equal to
\* those models; every request the component sends carries the grid's
\* models; and when the OK response arrives, the rows and the rowCount the
\* grid has are the response's data and total.
C11_GridModelsTranslated ==
    [][/\ grid' # grid =>
            request'.from = "swr" /\ request'.query = GridQuery(grid')
       /\ (request.from = "none" /\ request'.from = "swr") =>
            request'.query = GridQuery(grid')
       /\ (request.from = "swr" /\ response.status = 200 /\ request'.from = "none") =>
            Rows' = response.data /\ RowCount' = response.total]_vars

\* The data of the response to the request in flight asked for page p
\* instead: same filterModel, sortModel and pageSize.
PageData(p) ==
    Handler(dummyData, [request.query EXCEPT !.page = Str(NumberToString(p))]).body.data

\* ceil(total / pageSize)
PageCount == (response.total + PageSizeNumber.n - 1) \div PageSizeNumber.n

\* The pages from, from+1, ..., to of a table of pages, one after the other.
RECURSIVE PagesConcat(_, _, _)
PagesConcat(pages, from, to) ==
    IF from > to THEN <<>> ELSE pages[from] \o PagesConcat(pages, from + 1, to)

\* C12: for a fixed filterModel, sortModel and pageSize >= 1 the data of
\* pages 0, 1, ..., ceil(total/pageSize)-1, in that order, concatenate to
\* the filtered and sorted sequence; every record of it is on exactly one
\* page; and every later page is empty.
C12_PagesPartition ==
    (Answered /\ PageSizeNumber.t = "number" /\ PageSizeNumber.n >= 1) =>
        LET pages == [p \in 0..(PageCount + MaxPage) |-> PageData(p)]
        IN  /\ PagesConcat(pages, 0, PageCount - 1) = filteredData
            /\ \A i \in DOMAIN filteredData :
                  Cardinality({p \in 0..(PageCount - 1) :
                                  \E j \in DOMAIN pages[p] : pages[p][j] = filteredData[i]}) = 1
            /\ \A p \in PageCount..(PageCount + MaxPage) : pages[p] = <<>>

\* C12's case: four records and three a page make two pages, the second
\* with the one record left.
C12_Witness ==
    /\ Answered
    /\ dummyData = MoreData
    /\ request.query.pageSize = Str(NumberToString(3))
    /\ response.total = 4
    /\ PageCount = 2
    /\ Len(PageData(0)) = 3 /\ Len(PageData(1)) = 1

====
